---- MODULE Spec2Model ----
(***************************************************************************)
(* Blue-green pricing backend: the routing decision (RoutingService), the  *)
(* request handlers around it (PricingController, PricingService) and the  *)
(* statistics they keep.                                                    *)
(*                                                                          *)
(*   RouteSpec  applies determineVersion / getRoutingReason, as pure        *)
(*              functions, to one configuration and one request drawn from  *)
(*              bounded sets.                                               *)
(*   Spec       the running server: request handlers that suspend at the    *)
(*              pricing-data read, the decision function that the forced    *)
(*              path swaps, the counters, the clients' cookie jars.         *)
(***************************************************************************)
EXTENDS Integers, Sequences, FiniteSets, TLC

VARIABLES
    cfg,                \* RoutingService.routingConfig (config.routing), read-only
    probe,              \* RouteSpec: the request under evaluation and its results
    determineVersionProp, \* routingService.determineVersion as currently installed
    versionStats,       \* PricingService.versionStats
    requestCount,       \* PricingService.requestCount (a Map)
    pending,            \* handlers suspended at `await getPricingData`
    jar,                \* per client: the sticky cookie its browser holds
    started,            \* number of requests received so far
    lastResponse,       \* the response sent most recently
    recorded            \* history: the updateStats calls since the last resetStats

vars == <<cfg, probe, determineVersionProp, versionStats, requestCount,
          pending, jar, started, lastResponse, recorded>>

serverVars == <<determineVersionProp, versionStats, requestCount,
                pending, jar, started, lastResponse, recorded>>

----------------------------------------------------------------------------
(* JavaScript values *)

Undefined == "<undefined>"
Null == "<null>"
Variants == {"blue", "green"}

\* obj[key] on a plain object or a Map.get(key)
Get(obj, key) == IF key \in DOMAIN obj THEN obj[key] ELSE Undefined

\* JavaScript truthiness of a string-or-missing value
Truthy(v) == v # Undefined /\ v # Null /\ v # ""

\* a TypeError thrown where a property of undefined is read or undefined is
\* iterated; it leaves every caller up to the first try/catch
TypeError == "<TypeError>"

\* String.prototype.toLowerCase on the header names the model uses
toLowerCase(s) ==
    CASE s = "X-Version" -> "x-version"
      [] s = "X-VERSION" -> "x-version"
      [] s = "User-Agent" -> "user-agent"
      [] s = "X-Variant" -> "x-variant"
      [] OTHER -> s

----------------------------------------------------------------------------
(* Requests.  Node lower-cases header names on receipt; cookie-parser gives *)
(* req.cookies as a map from cookie name to value.                          *)

StickyCookieName == "session-version"
RoutingCookieName == "pricing-version"

Header(name, v) == IF v = Undefined THEN << >> ELSE (toLowerCase(name) :> v)
Cookie(name, v) == IF v = Undefined THEN << >> ELSE (name :> v)

MkReq(ip, ua, xv, rc, sc) ==
    [ip      |-> ip,
     headers |-> Header("User-Agent", ua) @@ Header("X-Version", xv),
     cookies |-> Cookie(RoutingCookieName, rc) @@ Cookie(StickyCookieName, sc)]

\* a request that carries one more header and one cookie under names of the
\* client's choosing; req.rawHeaders keeps the header's name as it was sent
MkReqSent(ip, ua, headerName, headerValue, cookieName, cookieValue) ==
    [ip         |-> ip,
     headers    |-> Header("User-Agent", ua) @@ Header(headerName, headerValue),
     rawHeaders |-> IF headerValue = Undefined THEN << >>
                    ELSE <<headerName, headerValue>>,
     cookies    |-> Cookie(cookieName, cookieValue)]

----------------------------------------------------------------------------
(* RoutingService *)

\* this.routingConfig[ruleName] is an object (`!ruleConfig` is false)
hasRuleConfig(c, ruleName) == ruleName \in DOMAIN c.rules

getClientIp(req) == IF Truthy(req.ip) THEN req.ip ELSE "127.0.0.1"

getClientIdentifier(req) ==
    LET ip == getClientIp(req)
        ua == Get(req.headers, "user-agent")
        userAgent == IF Truthy(ua) THEN ua ELSE ""
    IN  ip \o "-" \o userAgent

\* parseInt(md5(str).hex.substring(0, 8), 16), tabulated on the identifiers the
\* model's requests produce.  The value is an unsigned 32-bit number, kept as
\* its two 16-bit halves <<high, low>>: hash = high * 65536 + low.
hashString(str) ==
    CASE str = "127.0.0.1-"            -> <<59231, 28868>>   \* 3881791684
      [] str = "127.0.0.1-Mozilla/5.0" -> <<65153, 38286>>   \* 4269905294
      [] str = "127.0.0.1-curl/8.0"    -> <<17968, 14741>>   \* 1177565589
      [] str = "10.0.0.5-"             -> <<30733, 43938>>   \* 2014161826
      [] str = "10.0.0.5-Mozilla/5.0"  -> <<22705, 13105>>   \* 1488007985
      [] str = "10.0.0.5-curl/8.0"     -> <<49773, 44134>>   \* 3261967462
      [] str = "::ffff:127.0.0.1-"            -> <<8032, 63272>>    \* 526448424
      [] str = "::ffff:127.0.0.1-Mozilla/5.0" -> <<61393, 18683>>   \* 4023470331
      [] str = "::ffff:127.0.0.1-curl/8.0"    -> <<63981, 41974>>   \* 4193100790
      [] str = "::1-"                         -> <<37505, 58430>>   \* 2457986110
      [] str = "::1-Mozilla/5.0"              -> <<45571, 37637>>   \* 2986578693
      [] str = "::1-curl/8.0"                 -> <<26663, 51500>>   \* 1747437868

\* hash % 100 on the two halves (65536 % 100 = 36)
mod100(hash) == ((hash[1] % 100) * 36 + hash[2]) % 100

\* mutant of checkStickySession: any non-empty cookie value is accepted
checkStickySessionAnyValue(c, req) ==
    LET cookieName == c.stickySession.cookieName
        sessionVersion == Get(req.cookies, cookieName)
    IN  IF Truthy(sessionVersion) THEN sessionVersion ELSE Null

checkStickySession(c, req) ==
    LET cookieName == c.stickySession.cookieName
        sessionVersion == Get(req.cookies, cookieName)
    IN  IF Truthy(sessionVersion) /\ sessionVersion \in {"blue", "green"}
        THEN sessionVersion
        ELSE Null

\* mutant of applyHeaderRouting: the configured name is looked up as written
applyHeaderRoutingExactName(req, config) ==
    LET headerValue == Get(req.headers, config.headerName)
    IN  IF headerValue = config.blueValue THEN "blue"
        ELSE IF headerValue = config.greenValue THEN "green"
        ELSE Null

\* (config.headerName.toLowerCase() throws when the section has no headerName)
applyHeaderRouting(req, config) ==
    IF "headerName" \notin DOMAIN config THEN TypeError
    ELSE LET headerValue == Get(req.headers, toLowerCase(config.headerName))
         IN  IF headerValue = config.blueValue THEN "blue"
             ELSE IF headerValue = config.greenValue THEN "green"
             ELSE Null

\* mutant of applyCookieRouting: the value is compared without regard to case
applyCookieRoutingAnyCase(req, config) ==
    LET cookieValue == Get(req.cookies, config.cookieName)
        lower == CASE cookieValue \in {"Blue", "BLUE"}   -> "blue"
                   [] cookieValue \in {"Green", "GREEN"} -> "green"
                   [] OTHER -> cookieValue
    IN  IF Truthy(lower) /\ lower \in {"blue", "green"} THEN lower ELSE Null

applyCookieRouting(req, config) ==
    LET cookieValue == Get(req.cookies, config.cookieName)
    IN  IF Truthy(cookieValue) /\ cookieValue \in {"blue", "green"}
        THEN cookieValue
        ELSE Null

\* mutant of applyIpRouting: the green list is consulted first
applyIpRoutingGreenFirst(req, config) ==
    LET clientIp == getClientIp(req)
    IN  IF clientIp \in config.greenIps THEN "green"
        ELSE IF clientIp \in config.blueIps THEN "blue"
        ELSE Null

\* (config.blueIps.includes throws when the section has no blueIps, and
\* config.greenIps.includes, once it is reached, when it has no greenIps)
applyIpRouting(req, config) ==
    LET clientIp == getClientIp(req)
    IN  IF "blueIps" \notin DOMAIN config THEN TypeError
        ELSE IF clientIp \in config.blueIps THEN "blue"
        ELSE IF "greenIps" \notin DOMAIN config THEN TypeError
        ELSE IF clientIp \in config.greenIps THEN "green"
        ELSE Null

\* mutant of applyPercentageRouting: the threshold is taken from the green share
applyPercentageRoutingByGreen(req, config) ==
    LET identifier == getClientIdentifier(req)
        hash == hashString(identifier)
        percentage == mod100(hash)
    IN  IF percentage < 100 - config.green THEN "blue" ELSE "green"

applyPercentageRouting(req, config) ==
    LET identifier == getClientIdentifier(req)
        hash == hashString(identifier)
        percentage == mod100(hash)
    IN  IF percentage < config.blue THEN "blue" ELSE "green"

\* mutant of applyRule: the rule's enabled flag is not consulted
applyRuleIgnoringEnabled(c, ruleName, req) ==
    IF ~hasRuleConfig(c, ruleName) THEN Null
    ELSE LET ruleConfig == c.rules[ruleName]
         IN  CASE ruleName = "header"     -> applyHeaderRouting(req, ruleConfig)
               [] ruleName = "cookie"     -> applyCookieRouting(req, ruleConfig)
               [] ruleName = "ip"         -> applyIpRouting(req, ruleConfig)
               [] ruleName = "percentage" -> applyPercentageRouting(req, ruleConfig)
               [] OTHER                   -> Null

\* mutant of applyRule: a rule without evaluator is taken to decide blue
applyRuleUnknownDecides(c, ruleName, req) ==
    IF ~hasRuleConfig(c, ruleName) \/ ~c.rules[ruleName].enabled THEN Null
    ELSE LET ruleConfig == c.rules[ruleName]
         IN  CASE ruleName = "header"     -> applyHeaderRouting(req, ruleConfig)
               [] ruleName = "cookie"     -> applyCookieRouting(req, ruleConfig)
               [] ruleName = "ip"         -> applyIpRouting(req, ruleConfig)
               [] ruleName = "percentage" -> applyPercentageRouting(req, ruleConfig)
               [] OTHER                   -> "blue"

applyRule(c, ruleName, req) ==
    IF ~hasRuleConfig(c, ruleName) \/ ~c.rules[ruleName].enabled THEN Null
    ELSE LET ruleConfig == c.rules[ruleName]
         IN  CASE ruleName = "header"     -> applyHeaderRouting(req, ruleConfig)
               [] ruleName = "cookie"     -> applyCookieRouting(req, ruleConfig)
               [] ruleName = "ip"         -> applyIpRouting(req, ruleConfig)
               [] ruleName = "percentage" -> applyPercentageRouting(req, ruleConfig)
               [] OTHER                   -> Null

\* mutant of applyRulesFrom: the hardcoded default is the other variant
RECURSIVE applyRulesFromDefaultGreen(_, _, _)
applyRulesFromDefaultGreen(c, req, i) ==
    IF i > Len(c.priority) THEN "green"
    ELSE LET version == applyRule(c, c.priority[i], req)
         IN  IF Truthy(version) THEN version
             ELSE applyRulesFromDefaultGreen(c, req, i + 1)

\* the `for (const rule of priority)` loop of determineVersion, from entry i
RECURSIVE applyRulesFrom(_, _, _)
applyRulesFrom(c, req, i) ==
    IF i > Len(c.priority) THEN "blue"
    ELSE LET version == applyRule(c, c.priority[i], req)
         IN  IF Truthy(version) THEN version
             ELSE applyRulesFrom(c, req, i + 1)

\* mutant of determineVersion: the sticky check is left out
determineVersionNoSticky(c, req) == applyRulesFrom(c, req, 1)

\* (this.routingConfig.stickySession.enabled throws when config.routing has
\* no stickySession, `for (const rule of priority)` when it has no priority;
\* a TypeError out of an evaluator leaves the loop like a returned value)
determineVersion(c, req) ==
    IF "stickySession" \notin DOMAIN c THEN TypeError
    ELSE LET stickyVersion == IF c.stickySession.enabled
                              THEN checkStickySession(c, req) ELSE Null
         IN  IF Truthy(stickyVersion) THEN stickyVersion
             ELSE IF "priority" \notin DOMAIN c THEN TypeError
             ELSE applyRulesFrom(c, req, 1)

----------------------------------------------------------------------------
(* PricingService.getRoutingReason *)

\* mutant of reasonOfRule: the cookie case does not compare with the version
reasonOfRuleAnyCookie(c, rule, req, version) ==
    IF ~hasRuleConfig(c, rule) \/ ~c.rules[rule].enabled THEN Null
    ELSE LET ruleConfig == c.rules[rule]
         IN  CASE rule = "header" ->
                    LET headerValue ==
                            Get(req.headers, toLowerCase(ruleConfig.headerName))
                    IN  IF \/ headerValue = ruleConfig.blueValue /\ version = "blue"
                           \/ headerValue = ruleConfig.greenValue /\ version = "green"
                        THEN "header-" \o ruleConfig.headerName
                        ELSE Null
               [] rule = "cookie" ->
                    LET cookieValue == Get(req.cookies, ruleConfig.cookieName)
                    IN  IF Truthy(cookieValue)
                        THEN "cookie-" \o ruleConfig.cookieName
                        ELSE Null
               [] rule = "ip" ->
                    LET clientIp == getClientIp(req)
                    IN  IF \/ clientIp \in ruleConfig.blueIps /\ version = "blue"
                           \/ clientIp \in ruleConfig.greenIps /\ version = "green"
                        THEN "ip-based"
                        ELSE Null
               [] rule = "percentage" -> "percentage-split"
               [] OTHER -> Null

\* one iteration of the `for (const rule of priority)` loop: the tag it
\* returns, or Null when the iteration falls out of the switch
reasonOfRule(c, rule, req, version) ==
    IF ~hasRuleConfig(c, rule) \/ ~c.rules[rule].enabled THEN Null
    ELSE LET ruleConfig == c.rules[rule]
         IN  CASE rule = "header" ->
                    LET headerValue ==
                            Get(req.headers, toLowerCase(ruleConfig.headerName))
                    IN  IF \/ headerValue = ruleConfig.blueValue /\ version = "blue"
                           \/ headerValue = ruleConfig.greenValue /\ version = "green"
                        THEN "header-" \o ruleConfig.headerName
                        ELSE Null
               [] rule = "cookie" ->
                    LET cookieValue == Get(req.cookies, ruleConfig.cookieName)
                    IN  IF cookieValue = version
                        THEN "cookie-" \o ruleConfig.cookieName
                        ELSE Null
               [] rule = "ip" ->
                    LET clientIp == getClientIp(req)
                    IN  IF \/ clientIp \in ruleConfig.blueIps /\ version = "blue"
                           \/ clientIp \in ruleConfig.greenIps /\ version = "green"
                        THEN "ip-based"
                        ELSE Null
               [] rule = "percentage" -> "percentage-split"
               [] OTHER -> Null

RECURSIVE reasonFrom(_, _, _, _)
reasonFrom(c, req, version, i) ==
    IF i > Len(c.priority) THEN "default-fallback"
    ELSE LET tag == reasonOfRule(c, c.priority[i], req, version)
         IN  IF tag # Null THEN tag
             ELSE reasonFrom(c, req, version, i + 1)

getRoutingReason(c, req, version) ==
    IF c.stickySession.enabled /\ checkStickySession(c, req) = version
    THEN "sticky-session"
    ELSE reasonFrom(c, req, version, 1)

----------------------------------------------------------------------------
(* config.routing as config/index.js assembles it: the four rule sections   *)
(* always exist; any further section of the rules file is spread in too.    *)

RuleNames == {"header", "cookie", "ip", "percentage"}

MkConfig(sticky, priority, en, blue, greenIps) ==
    [stickySession |-> [enabled |-> sticky, cookieName |-> StickyCookieName],
     priority      |-> priority,
     rules |->
        [r \in RuleNames |->
            CASE r = "header" ->
                    [enabled |-> en[r], headerName |-> "X-Version",
                     blueValue |-> "blue", greenValue |-> "green"]
              [] r = "cookie" ->
                    [enabled |-> en[r], cookieName |-> RoutingCookieName]
              [] r = "ip" ->
                    [enabled |-> en[r], blueIps |-> {"127.0.0.1"},
                     greenIps |-> greenIps]
              [] r = "percentage" ->
                    [enabled |-> en[r], blue |-> blue, green |-> 100 - blue]]]

AllEnabled == [r \in RuleNames |-> TRUE]

\* the file's (and the fallback's) order, and orders an operator may configure;
\* "canary" names a rule that has neither a section nor an evaluator
Priorities ==
    { <<"header", "cookie", "ip", "percentage">>,
      <<"percentage", "header", "cookie", "ip">>,
      <<"ip", "cookie", "header">>,
      <<"cookie", "canary", "header", "percentage">> }

\* c with one more section, as the spread of routingRules.routingRules puts
\* any further key of the rules file into config.routing
WithSection(c, name, section) == [c EXCEPT !.rules = (name :> section) @@ c.rules]

\* the configurations whose priority list names "canary" come without and
\* with an enabled "canary" section
RouteConfigs ==
    LET fourRules ==
            { MkConfig(sticky, priority, en, blue, greenIps) :
                sticky \in BOOLEAN, priority \in Priorities,
                en \in [RuleNames -> BOOLEAN], blue \in {0, 70, 100},
                greenIps \in { {"10.0.0.5"} } }
    IN  fourRules \cup
        { WithSection(c, "canary", [enabled |-> TRUE]) :
            c \in {d \in fourRules : \E i \in 1..Len(d.priority) :
                                        d.priority[i] = "canary"} }

Ips == {"127.0.0.1", "10.0.0.5"}
UserAgents == {Undefined, "curl/8.0"}
HeaderValues == {Undefined, "blue", "green", "purple"}
CookieValues == {Undefined, "blue", "green", "purple"}

Requests ==
    { MkReq(ip, ua, xv, rc, sc) :
        ip \in Ips, ua \in UserAgents, xv \in HeaderValues,
        rc \in CookieValues, sc \in CookieValues }

----------------------------------------------------------------------------
(* RouteSpec: one decision and its explanation, as PricingService.getPricing *)
(* computes them (server.js lines 448 and 471).                              *)

NoProbe == [pc |-> "off"]

Decide ==
    /\ probe.pc = "request"
    /\ probe' = [pc |-> "decided", req |-> probe.req,
                 version |-> determineVersion(cfg, probe.req)]
    /\ UNCHANGED <<cfg, serverVars>>

Explain ==
    /\ probe.pc = "decided"
    /\ probe' = [pc |-> "explained", req |-> probe.req,
                 version |-> probe.version,
                 routingReason |-> getRoutingReason(cfg, probe.req, probe.version)]
    /\ UNCHANGED <<cfg, serverVars>>

----------------------------------------------------------------------------
(* The running server *)

MaxRequests == 3        \* pricing requests received in one behaviour
MaxInFlight == 2        \* handlers suspended on the data read at one time

Clients == {"alice", "bob"}
ClientIp(client) == IF client = "alice" THEN "127.0.0.1" ELSE "10.0.0.5"
ClientUA(client) == "Mozilla/5.0"

\* alice browses the pricing page; bob also uses the forced-version endpoint
Testers == {"bob"}

\* what a client sends besides its jar's sticky cookie: the header
\* X-Version: green ("header"), nothing at all ("none"), or values that name
\* no variant, X-Version: purple and pricing-version=Blue ("junk")
ExtrasOf(client) == IF client = "alice" THEN {"none", "header"}
                    ELSE {"junk", "header"}
ClientReq(client, extra, sticky) ==
    MkReq(ClientIp(client), ClientUA(client),
          CASE extra = "header" -> "green"
            [] extra = "junk"   -> "purple"
            [] OTHER            -> Undefined,
          IF extra = "junk" THEN "Blue" ELSE Undefined,
          sticky)

\* a free handler slot
FreeId(handlers) == CHOOSE i \in 1..(Cardinality(handlers) + 1) :
                        \A h \in handlers : h.id # i
\* the :version path parameter of GET /pricing/version/:version
PathVersions == {"blue", "green", "purple"}

DefaultPriority == <<"header", "cookie", "ip", "percentage">>
OverridesOnly == [r \in RuleNames |-> r \in {"header", "cookie"}]

ServerConfigs ==
    { MkConfig(TRUE, DefaultPriority, AllEnabled, 70, {}),
      MkConfig(FALSE, DefaultPriority, OverridesOnly, 70, {}) }

\* routingService.determineVersion: the prototype method, or the arrow
\* function `() => version` the forced path installs
Method == [kind |-> "method", version |-> Null]
Arrow(version) == [kind |-> "arrow", version |-> version]

\* mutant of callDetermineVersion: the prototype's method is called whatever
\* is installed on the instance
callDetermineVersionMethodOnly(prop, c, req) == determineVersion(c, req)

\* this.routingService.determineVersion(req)
callDetermineVersion(prop, c, req) ==
    IF prop.kind = "method" THEN determineVersion(c, req) ELSE prop.version

\* the value setStickySession writes to the sticky cookie (Undefined: none)
setStickySession(c, version) ==
    IF ~c.stickySession.enabled THEN Undefined ELSE version

\* PricingModel.validatePricingData on what the file held
validatePricingData(data) == data = "valid"

\* mutant of updateVersionStats: the old count is not read back
updateVersionStatsLost(stats, version) == (version :> 1) @@ stats

\* updateStats: versionStats[version] = (versionStats[version] || 0) + 1
updateVersionStats(stats, version) ==
    (version :> ((IF version \in DOMAIN stats THEN stats[version] ELSE 0) + 1))
        @@ stats

\* mutant of updateRequestCount: the client's old count is not read back
updateRequestCountLost(counts, req) == (getClientIp(req) :> 1) @@ counts

\* updateStats: requestCount.set(clientIp, (requestCount.get(clientIp) || 0) + 1)
updateRequestCount(counts, req) ==
    LET clientIp == getClientIp(req)
    IN  (clientIp :> ((IF clientIp \in DOMAIN counts THEN counts[clientIp] ELSE 0) + 1))
            @@ counts

\* mutant of isValidVersion: any non-empty path parameter passes
isValidVersionAny(version) == Truthy(version)

\* ['blue', 'green'].includes(version) of getSpecificVersion
isValidVersion(version) == version \in {"blue", "green"}

\* A percentage of the snapshot is a JavaScript value: the number literal 0,
\* or the string Number.prototype.toFixed(2) returns, which is either a
\* decimal numeral with two fraction digits or "NaN".  `hundredths` is the
\* value in hundredths of a percent ("30.00" is 3000).
JsNumber(hundredths) == [type |-> "number", hundredths |-> hundredths]
Numeral(hundredths) == [type |-> "string", hundredths |-> hundredths]
NaNString == [type |-> "string-NaN", hundredths |-> 0]

\* (count / total * 100).toFixed(2) for total > 0: rounded to the nearest
\* hundredth.  (No quotient with total below 32 lies half-way between two
\* hundredths, so the direction in which toFixed breaks ties plays no part.)
toFixed2(count, total) == Numeral(((count * 100000) \div total + 5) \div 10)

\* mutant of getStats: the total is not tested, 0 / 0 * 100 is NaN
getStatsUnguarded(stats, counts) ==
    LET totalRequests == stats["blue"] + stats["green"]
        percentage(count) == IF totalRequests > 0 THEN toFixed2(count, totalRequests)
                             ELSE NaNString
    IN  [totalRequests |-> totalRequests,
         blue  |-> [count |-> stats["blue"], percentage |-> percentage(stats["blue"])],
         green |-> [count |-> stats["green"], percentage |-> percentage(stats["green"])],
         uniqueClients |-> Cardinality(DOMAIN counts)]

getStats(stats, counts) ==
    LET totalRequests == stats["blue"] + stats["green"]
    IN  [totalRequests |-> totalRequests,
         blue  |-> [count |-> stats["blue"],
                    percentage |-> IF totalRequests > 0
                                   THEN toFixed2(stats["blue"], totalRequests)
                                   ELSE JsNumber(0)],
         green |-> [count |-> stats["green"],
                    percentage |-> IF totalRequests > 0
                                   THEN toFixed2(stats["green"], totalRequests)
                                   ELSE JsNumber(0)],
         uniqueClients |-> Cardinality(DOMAIN counts)]

ZeroStats == ("blue" :> 0) @@ ("green" :> 0)
EmptyMap == << >>

\* the history of updateStats(version, req) calls: how often each version and
\* each client identifier was passed since the last resetStats, and how many
\* calls that resetStats erased
NothingRecorded == [versions |-> EmptyMap, identifiers |-> EmptyMap, erased |-> 0]
Tally(bag, x) == (x :> ((IF x \in DOMAIN bag THEN bag[x] ELSE 0) + 1)) @@ bag
updateStatsCalled(history, version, req) ==
    [versions    |-> Tally(history.versions, version),
     identifiers |-> Tally(history.identifiers, getClientIdentifier(req)),
     erased      |-> history.erased]
RECURSIVE BagSize(_)
BagSize(bag) ==
    IF DOMAIN bag = {} THEN 0
    ELSE LET x == CHOOSE y \in DOMAIN bag : TRUE
         IN  bag[x] + BagSize([y \in DOMAIN bag \ {x} |-> bag[y]])
resetStatsCalled(history) ==
    [NothingRecorded EXCEPT !.erased = BagSize(history.identifiers)]

Init ==
    /\ cfg \in ServerConfigs
    /\ probe = NoProbe
    /\ determineVersionProp = Method
    /\ versionStats = ZeroStats
    /\ requestCount = EmptyMap
    /\ pending = {}
    /\ jar = [client \in Clients |->
                IF client = "bob" THEN "purple" ELSE Undefined]
    /\ started = 0
    /\ lastResponse = [kind |-> "none"]
    /\ recorded = NothingRecorded

\* The rest of a /pricing or /pricing/version handler once getPricingData has
\* settled with `data` ("valid", "invalid", or "error" when the read or the
\* parse threw); `prop` is the decision function installed at that moment.
Settle(h, data, prop) ==
    LET ok == data # "error" /\ validatePricingData(data)
    IN  /\ versionStats' = IF ok THEN updateVersionStats(versionStats, h.version)
                           ELSE versionStats
        /\ requestCount' = IF ok THEN updateRequestCount(requestCount, h.req)
                           ELSE requestCount
        /\ recorded' = IF ok THEN updateStatsCalled(recorded, h.version, h.req)
                       ELSE recorded
        /\ determineVersionProp' = IF ok /\ h.kind = "forced" THEN h.saved ELSE prop
        /\ lastResponse' =
              [kind |-> h.kind,
               status |-> IF ok THEN 200 ELSE 500,
               version |-> IF ok THEN h.version ELSE Undefined,
               routingReason |-> IF ok THEN getRoutingReason(cfg, h.req, h.version)
                                 ELSE Undefined,
               setCookie |-> h.setCookie]
        /\ jar' = IF h.setCookie # Undefined
                  THEN [jar EXCEPT ![h.client] = h.setCookie]
                  ELSE jar

\* PricingService.getPricing from its first line to `await getPricingData`,
\* where the handler suspends with the decision function `prop` installed.
\* PricingModel's cache is left out: every entry expires after CACHE_DURATION,
\* and a handler served from the cache behaves as one whose read settles
\* before any other handler runs, which DataRead allows at every suspension.
Handle(h, prop) ==
    /\ Cardinality(pending) < MaxInFlight
    /\ pending' = pending \cup {h}
    /\ determineVersionProp' = prop
    /\ UNCHANGED <<versionStats, requestCount, jar, lastResponse, recorded>>

\* GET /pricing
GetPricing(client, extra) ==
    /\ probe = NoProbe
    /\ started < MaxRequests
    /\ started' = started + 1
    /\ LET req == ClientReq(client, extra, jar[client])
           version == callDetermineVersion(determineVersionProp, cfg, req)
       IN  Handle([id |-> FreeId(pending), kind |-> "normal", client |-> client,
                   req |-> req, version |-> version,
                   setCookie |-> setStickySession(cfg, version),
                   saved |-> Method],
                  determineVersionProp)
    /\ UNCHANGED <<cfg, probe>>

\* GET /pricing/version/:version
GetSpecificVersion(client, extra, param) ==
    /\ probe = NoProbe
    /\ started < MaxRequests
    /\ started' = started + 1
    /\ IF ~isValidVersion(param)
       THEN /\ lastResponse' = [kind |-> "forced", status |-> 400,
                                version |-> Undefined,
                                routingReason |-> Undefined,
                                setCookie |-> Undefined]
            /\ UNCHANGED <<determineVersionProp, versionStats, requestCount,
                           pending, jar, recorded>>
       ELSE LET req == ClientReq(client, extra, jar[client])
                version == callDetermineVersion(Arrow(param), cfg, req)
            IN  Handle([id |-> FreeId(pending), kind |-> "forced", client |-> client,
                        req |-> req, version |-> version,
                        setCookie |-> setStickySession(cfg, version),
                        saved |-> determineVersionProp],
                       Arrow(param))
    /\ UNCHANGED <<cfg, probe>>

\* PricingModel.getPricingData settles for a suspended handler: the file held
\* a valid payload, a payload that fails validation, or the read or the parse
\* threw ("error")
DataRead(h, data) ==
    /\ h \in pending
    /\ pending' = pending \ {h}
    /\ Settle(h, data, determineVersionProp)
    /\ UNCHANGED <<cfg, probe, started>>

\* GET /pricing/stats
GetStats ==
    /\ probe = NoProbe
    /\ lastResponse' = [kind |-> "stats", status |-> 200,
                        data |-> getStats(versionStats, requestCount)]
    /\ UNCHANGED <<cfg, probe, determineVersionProp, versionStats, requestCount,
                   pending, jar, started, recorded>>

\* mutant of resetRequestCount: the map is not cleared
resetRequestCountKept(counts) == counts

\* resetStats: this.versionStats = { blue: 0, green: 0 }
resetVersionStats(stats) == ZeroStats
\* resetStats: this.requestCount.clear()
resetRequestCount(counts) == EmptyMap

\* POST /pricing/reset-stats
ResetStats ==
    /\ probe = NoProbe
    /\ versionStats' = resetVersionStats(versionStats)
    /\ requestCount' = resetRequestCount(requestCount)
    /\ recorded' = resetStatsCalled(recorded)
    /\ lastResponse' = [kind |-> "reset", status |-> 200]
    /\ UNCHANGED <<cfg, probe, determineVersionProp, pending, jar, started>>

Next ==
    \/ \E client \in Clients : \E extra \in ExtrasOf(client) :
            GetPricing(client, extra)
    \/ \E client \in Testers : \E extra \in ExtrasOf(client), param \in PathVersions :
            GetSpecificVersion(client, extra, param)
    \/ \E h \in pending, data \in {"valid", "invalid", "error"} : DataRead(h, data)
    \/ GetStats
    \/ ResetStats

Spec == Init /\ [][Next]_vars

\* HealthySpec: the running server while every pricing-data read succeeds
HealthyNext ==
    \/ \E client \in Clients : \E extra \in ExtrasOf(client) :
            GetPricing(client, extra)
    \/ \E client \in Testers : \E extra \in ExtrasOf(client), param \in PathVersions :
            GetSpecificVersion(client, extra, param)
    \/ \E h \in pending : DataRead(h, "valid")
    \/ GetStats
    \/ ResetStats

HealthySpec == Init /\ [][HealthyNext]_vars

\* RecordSpec: the statistics alone, updateStats being called for served
\* requests of clients that share an address or a user agent
MaxRecords == 4         \* updateStats calls in one behaviour

RecordRequests ==
    { MkReq("127.0.0.1", "Mozilla/5.0", Undefined, Undefined, Undefined),
      MkReq("127.0.0.1", "curl/8.0", Undefined, Undefined, Undefined),
      MkReq("10.0.0.5", "Mozilla/5.0", Undefined, Undefined, Undefined) }

\* this.updateStats(version, req)
Record(version, req) ==
    /\ probe = NoProbe
    /\ started < MaxRecords
    /\ started' = started + 1
    /\ versionStats' = updateVersionStats(versionStats, version)
    /\ requestCount' = updateRequestCount(requestCount, req)
    /\ recorded' = updateStatsCalled(recorded, version, req)
    /\ UNCHANGED <<cfg, probe, determineVersionProp, pending, jar, lastResponse>>

RecordNext ==
    \/ \E version \in Variants, req \in RecordRequests : Record(version, req)
    \/ GetStats
    \/ ResetStats

RecordSpec == Init /\ [][RecordNext]_vars

RouteInit ==
    /\ cfg \in RouteConfigs
    /\ probe \in [pc : {"request"}, req : Requests]
    /\ determineVersionProp = Method
    /\ versionStats = ZeroStats
    /\ requestCount = EmptyMap
    /\ pending = {}
    /\ jar = [client \in Clients |-> Undefined]
    /\ started = 0
    /\ lastResponse = [kind |-> "none"]
    /\ recorded = NothingRecorded

RouteNext == Decide \/ Explain

RouteSpec == RouteInit /\ [][RouteNext]_vars

----------------------------------------------------------------------------
(* EvalSpec: one rule's evaluator applied, through applyRule, to a rule      *)
(* section and a request drawn from bounded sets.                            *)

\* utils/helpers.js sanitizeIp, on the addresses the model uses
sanitizeIp(ip) ==
    IF ~Truthy(ip) THEN "0.0.0.0"
    ELSE CASE ip = "::ffff:127.0.0.1" -> "127.0.0.1"     \* ip.substring(7)
           [] ip = "::ffff:10.0.0.5"  -> "10.0.0.5"
           [] ip = "::1"              -> "127.0.0.1"
           [] OTHER                   -> ip

\* req.ip as Express reports it: an IPv4 peer of a dual-stack socket shows as
\* an IPv4-mapped IPv6 address, the IPv6 loopback as ::1
EvalIps == {"127.0.0.1", "10.0.0.5", "::ffff:127.0.0.1", "::1"}
EvalUserAgents == {Undefined, "Mozilla/5.0", "curl/8.0"}

HeaderNames == {"X-Version", "X-VERSION", "x-version"}
SentHeaderNames == HeaderNames \cup {"X-Variant"}
\* <<blueValue, greenValue>>
HeaderValuePairs == {<<"blue", "green">>, <<"green", "blue">>, <<"beta", "beta">>}
SentHeaderValues == {Undefined, "blue", "green", "Blue", "beta"}

CookieNames == {RoutingCookieName, "variant"}
SentCookieValues == {Undefined, "", "blue", "green", "Blue", "GREEN", "purple"}

BlueIpLists == { {}, {"127.0.0.1"}, {"127.0.0.1", "10.0.0.5"} }
GreenIpLists == { {}, {"10.0.0.5"}, {"10.0.0.0/24"} }

BlueShares == {0, 26, 27, 70, 100, 150}
GreenShares == {0, 30, 100}

EvalBase == MkConfig(FALSE, DefaultPriority, AllEnabled, 70, {})

EvalConfigs(rule) ==
    CASE rule = "header" ->
            { [EvalBase EXCEPT !.rules["header"] =
                  [enabled |-> TRUE, headerName |-> name,
                   blueValue |-> pair[1], greenValue |-> pair[2]]] :
                name \in HeaderNames, pair \in HeaderValuePairs }
      [] rule = "cookie" ->
            { [EvalBase EXCEPT !.rules["cookie"] =
                  [enabled |-> TRUE, cookieName |-> name]] : name \in CookieNames }
      [] rule = "ip" ->
            { [EvalBase EXCEPT !.rules["ip"] =
                  [enabled |-> TRUE, blueIps |-> blueIps, greenIps |-> greenIps]] :
                blueIps \in BlueIpLists, greenIps \in GreenIpLists }
      [] rule = "percentage" ->
            { [EvalBase EXCEPT !.rules["percentage"] =
                  [enabled |-> TRUE, blue |-> blue, green |-> green]] :
                blue \in BlueShares, green \in GreenShares }

EvalRequests(rule) ==
    CASE rule = "header" ->
            { MkReqSent("10.0.0.5", "curl/8.0", name, value, RoutingCookieName, Undefined) :
                name \in SentHeaderNames, value \in SentHeaderValues }
      [] rule = "cookie" ->
            { MkReqSent("10.0.0.5", "curl/8.0", "X-Version", Undefined, name, value) :
                name \in CookieNames, value \in SentCookieValues }
      [] OTHER ->
            { MkReqSent(ip, ua, "X-Version", Undefined, RoutingCookieName, Undefined) :
                ip \in EvalIps, ua \in EvalUserAgents }

EvalInit ==
    /\ \E rule \in RuleNames :
          /\ cfg \in EvalConfigs(rule)
          /\ probe \in [pc : {"rule"}, rule : {rule}, req : EvalRequests(rule)]
    /\ determineVersionProp = Method
    /\ versionStats = ZeroStats
    /\ requestCount = EmptyMap
    /\ pending = {}
    /\ jar = [client \in Clients |-> Undefined]
    /\ started = 0
    /\ lastResponse = [kind |-> "none"]
    /\ recorded = NothingRecorded

\* const version = this.applyRule(rule, req)
ApplyRule ==
    /\ probe.pc = "rule"
    /\ probe' = [pc |-> "applied", rule |-> probe.rule, req |-> probe.req,
                 version |-> applyRule(cfg, probe.rule, probe.req)]
    /\ UNCHANGED <<cfg, serverVars>>

EvalNext == ApplyRule

EvalSpec == EvalInit /\ [][EvalNext]_vars

----------------------------------------------------------------------------
(* ConfigSpec: config/index.js evaluated at startup over the state of       *)
(* routing-rules.json and the environment, then one GET /pricing decided    *)
(* with the configuration it produced.                                      *)

\* the object assigned in the catch block
FallbackRules ==
    [routingRules |->
        [percentage |-> [enabled |-> TRUE, blue |-> 70, green |-> 30],
         header     |-> [enabled |-> TRUE, headerName |-> "X-Version",
                         blueValue |-> "blue", greenValue |-> "green"],
         cookie     |-> [enabled |-> TRUE, cookieName |-> RoutingCookieName],
         ip         |-> [enabled |-> TRUE, blueIps |-> {}, greenIps |-> {}]],
     stickySession |-> [enabled |-> TRUE, cookieName |-> StickyCookieName],
     priority      |-> DefaultPriority]

\* obj without the property key
Drop(obj, key) == [k \in DOMAIN obj \ {key} |-> obj[k]]

\* a rules file with every section: the README's example and a stickySession
CompleteRules ==
    [FallbackRules EXCEPT !.routingRules.ip.blueIps = {"127.0.0.1"}]

\* a rules file with every section, most rules and sticky sessions switched off
QuietRules ==
    [routingRules |->
        [percentage |-> [enabled |-> FALSE, blue |-> 20, green |-> 80],
         header     |-> [enabled |-> FALSE, headerName |-> "X-Version",
                         blueValue |-> "blue", greenValue |-> "green"],
         cookie     |-> [enabled |-> TRUE, cookieName |-> RoutingCookieName],
         ip         |-> [enabled |-> FALSE, blueIps |-> {"127.0.0.1"},
                         greenIps |-> {}]],
     stickySession |-> [enabled |-> FALSE, cookieName |-> StickyCookieName],
     priority      |-> DefaultPriority]

WellFormedRules == {CompleteRules, QuietRules}

\* rules files that parse but lack a section or a rule's parameters; the
\* README's example itself has no stickySession
ReadmeRules == Drop(CompleteRules, "stickySession")
MalformedRules ==
    { Drop(Drop(Drop(CompleteRules, "routingRules"), "stickySession"), "priority"),
      ReadmeRules,
      Drop(CompleteRules, "priority"),
      Drop(CompleteRules, "routingRules"),
      [CompleteRules EXCEPT !.routingRules = Drop(@, "header")],
      [CompleteRules EXCEPT !.routingRules = Drop(@, "percentage")],
      [CompleteRules EXCEPT !.routingRules.header = Drop(@, "headerName")],
      [CompleteRules EXCEPT !.routingRules.ip = [enabled |-> TRUE]] }

\* routing-rules.json as readFileSync and JSON.parse find it
RulesFiles ==
    {[state |-> "missing"], [state |-> "unparsable"]}
        \cup { [state |-> "readable", content |-> rules] :
                 rules \in WellFormedRules \cup MalformedRules }

\* process.env after dotenv.config()
EnableVars == [r \in RuleNames |->
                 CASE r = "header"     -> "ENABLE_HEADER_ROUTING"
                   [] r = "cookie"     -> "ENABLE_COOKIE_ROUTING"
                   [] r = "ip"         -> "ENABLE_IP_ROUTING"
                   [] r = "percentage" -> "ENABLE_PERCENTAGE_ROUTING"]
Environments ==
    [BLUE_PERCENTAGE           : {Undefined, "0", "50", "100"},
     GREEN_PERCENTAGE          : {Undefined, "0", "50"},
     ENABLE_HEADER_ROUTING     : {Undefined, "true", "false"},
     ENABLE_COOKIE_ROUTING     : {Undefined, "true", "false"},
     ENABLE_IP_ROUTING         : {Undefined, "true", "false"},
     ENABLE_PERCENTAGE_ROUTING : {Undefined, "true", "false"}]

\* parseInt on the values the environment holds: a number or NaN
parseInt(str) ==
    CASE str = "0"   -> [nan |-> FALSE, value |-> 0]
      [] str = "50"  -> [nan |-> FALSE, value |-> 50]
      [] str = "100" -> [nan |-> FALSE, value |-> 100]
      [] OTHER       -> [nan |-> TRUE, value |-> 0]
\* a number that `||` passes over
FalsyNumber(n) == n.nan \/ n.value = 0

\* mutant of loadRoutingRules: the catch block assigns nothing
loadRoutingRulesNoFallback(file) ==
    IF file.state = "readable" THEN file.content ELSE << >>

\* lines 12-30: the parsed file, or the fallback when reading or parsing threw
loadRoutingRules(file) ==
    IF file.state = "readable" THEN file.content ELSE FallbackRules

\* the sections of routingRules.routingRules
SectionsOf(rules) ==
    IF "routingRules" \in DOMAIN rules THEN rules.routingRules ELSE << >>

\* lines 32-60 throw a TypeError, and the module fails to load, when
\* routingRules.routingRules is undefined, or when a rule's section is
\* undefined and the `||` before it does not short-circuit
startupThrows(rules, env) ==
    LET sections == SectionsOf(rules)
    IN  \/ "routingRules" \notin DOMAIN rules
        \/ /\ "percentage" \notin DOMAIN sections
           /\ \/ FalsyNumber(parseInt(env.BLUE_PERCENTAGE))
              \/ FalsyNumber(parseInt(env.GREEN_PERCENTAGE))
              \/ env.ENABLE_PERCENTAGE_ROUTING # "true"
        \/ \E r \in {"header", "cookie", "ip"} :
              r \notin DOMAIN sections /\ env[EnableVars[r]] # "true"

\* process.env.ENABLE_x_ROUTING === 'true' || section.enabled
effectiveEnabled(section, flag) ==
    flag = "true" \/ ("enabled" \in DOMAIN section /\ section.enabled)

\* parseInt(process.env.x_PERCENTAGE) || section[key]
effectiveShare(section, key, str) ==
    IF ~FalsyNumber(parseInt(str)) THEN parseInt(str).value ELSE section[key]

\* config.routing, lines 37-60, when they do not throw
buildRouting(rules, env) ==
    LET sections == SectionsOf(rules)
        section(r) == IF r \in DOMAIN sections THEN sections[r] ELSE << >>
        merged(r) ==
            IF r = "percentage"
            THEN [enabled |-> effectiveEnabled(section(r), env[EnableVars[r]]),
                  blue    |-> effectiveShare(section(r), "blue", env.BLUE_PERCENTAGE),
                  green   |-> effectiveShare(section(r), "green", env.GREEN_PERCENTAGE)]
            ELSE ("enabled" :> effectiveEnabled(section(r), env[EnableVars[r]]))
                    @@ section(r)
        top(key) == IF key \in DOMAIN rules THEN (key :> rules[key]) ELSE << >>
    IN  top("stickySession") @@ top("priority") @@
        [rules |-> [r \in DOMAIN sections \cup RuleNames |->
                      IF r \in RuleNames THEN merged(r) ELSE sections[r]]]

NotLoaded == [loaded |-> FALSE]

ConfigRequests ==
    { MkReq("127.0.0.1", "Mozilla/5.0", Undefined, Undefined, Undefined),
      MkReq("10.0.0.5", "Mozilla/5.0", "green", Undefined, Undefined),
      MkReq("10.0.0.5", "Mozilla/5.0", Undefined, "green", Undefined),
      MkReq("10.0.0.5", "Mozilla/5.0", Undefined, Undefined, "blue") }

ConfigInit ==
    /\ cfg = NotLoaded
    /\ probe \in [pc : {"boot"}, file : RulesFiles, env : Environments]
    /\ determineVersionProp = Method
    /\ versionStats = ZeroStats
    /\ requestCount = EmptyMap
    /\ pending = {}
    /\ jar = [client \in Clients |-> Undefined]
    /\ started = 0
    /\ lastResponse = [kind |-> "none"]
    /\ recorded = NothingRecorded

\* node server.js: the import of config/index.js and the services' constructors
Boot ==
    /\ probe.pc = "boot"
    /\ LET rules == loadRoutingRules(probe.file)
       IN  IF startupThrows(rules, probe.env)
           THEN /\ probe' = [probe EXCEPT !.pc = "crashed"]
                /\ cfg' = cfg
           ELSE /\ probe' = [probe EXCEPT !.pc = "listening"]
                /\ cfg' = buildRouting(rules, probe.env)
    /\ UNCHANGED serverVars

\* GET /pricing on the started server, the pricing data being in order: the
\* controller turns anything thrown inside getPricing into a 500
Serve(req) ==
    /\ probe.pc = "listening"
    /\ LET version == determineVersion(cfg, req)
       IN  probe' =
             IF version = TypeError
             THEN [pc |-> "served", file |-> probe.file, env |-> probe.env,
                   req |-> req, status |-> 500, version |-> Undefined,
                   routingReason |-> Undefined]
             ELSE [pc |-> "served", file |-> probe.file, env |-> probe.env,
                   req |-> req, status |-> 200, version |-> version,
                   routingReason |-> getRoutingReason(cfg, req, version)]
    /\ UNCHANGED <<cfg, serverVars>>

ConfigNext == Boot \/ \E req \in ConfigRequests : Serve(req)

ConfigSpec == ConfigInit /\ [][ConfigNext]_vars

\* HookSpec: the frontend's usePricing hook, mounted in one component with
\* refreshInterval null (as App.jsx mounts it); probe holds the hook
MaxFetches == 5         \* requests the hook issues in one behaviour

MaxRetriesChoices == {1, 3}

HookOptions ==
    [autoFetch : BOOLEAN, retryOnError : BOOLEAN, maxRetries : MaxRetriesChoices]

\* useState({ data: null, loading: true, error: null, version: null, ... })
initialState ==
    [data |-> Null, loading |-> TRUE, error |-> Null, version |-> Null,
     retryCount |-> 0]

\* what a settled request brought: the variant of the pricing data, or a
\* failure without a response (isNetworkError) or with an error status
Outcomes == Variants \cup {"network", "http"}

\* the fetchPricing of one render: useCallback makes a new one when
\* state.loading or state.retryCount changes, and the function reads both
\* from the render that made it
Closure(state) == [loading |-> state.loading, retryCount |-> state.retryCount]

\* fetchPricing(forceRefresh), up to its await
fetchPricing(h, closure, forceRefresh) ==
    IF closure.loading /\ ~forceRefresh
    THEN h
    ELSE [h EXCEPT !.state = [@ EXCEPT !.loading = TRUE, !.error = Null],
                   !.inflight = @ \cup {[id |-> h.fetches + 1,
                                         api |-> "getPricing",
                                         closure |-> closure]},
                   !.fetches = @ + 1]

\* fetchPricing after apiService.getPricing() has settled
fetchPricingSettled(h, r, outcome) ==
    IF outcome \in Variants
    THEN [h EXCEPT !.state = [@ EXCEPT !.data = outcome, !.version = outcome,
                                       !.loading = FALSE, !.error = Null,
                                       !.retryCount = 0],
                   !.inflight = @ \ {r},
                   !.retries = 0]
    ELSE [h EXCEPT !.state = [@ EXCEPT !.loading = FALSE, !.error = outcome,
                                       !.retryCount = @ + 1],
                   !.inflight = @ \ {r},
                   !.timers = IF /\ h.options.retryOnError
                                 /\ outcome = "network"
                                 /\ r.closure.retryCount < h.options.maxRetries
                              THEN @ \cup {[id |-> r.id, closure |-> r.closure]}
                              ELSE @]

\* fetchSpecificVersion(version), up to its await
fetchSpecificVersion(h) ==
    [h EXCEPT !.state = [@ EXCEPT !.loading = TRUE, !.error = Null],
              !.inflight = @ \cup {[id |-> h.fetches + 1,
                                    api |-> "getSpecificVersion",
                                    closure |-> Closure(h.state)]},
              !.fetches = @ + 1]

\* fetchSpecificVersion after apiService.getSpecificVersion() has settled
fetchSpecificVersionSettled(h, r, outcome) ==
    IF outcome \in Variants
    THEN [h EXCEPT !.state = [@ EXCEPT !.data = outcome, !.version = outcome,
                                       !.loading = FALSE, !.error = Null],
                   !.inflight = @ \ {r}]
    ELSE [h EXCEPT !.state = [@ EXCEPT !.loading = FALSE, !.error = outcome],
                   !.inflight = @ \ {r}]

clearError(h) == [h EXCEPT !.state = [@ EXCEPT !.error = Null]]

HookInit ==
    /\ cfg = NotLoaded
    /\ probe \in [pc : {"unmounted"}, options : HookOptions,
                  state : {initialState}, inflight : {{}}, timers : {{}},
                  fetches : {0}, retries : {0}]
    /\ determineVersionProp = Method
    /\ versionStats = ZeroStats
    /\ requestCount = EmptyMap
    /\ pending = {}
    /\ jar = [client \in Clients |-> Undefined]
    /\ started = 0
    /\ lastResponse = [kind |-> "none"]
    /\ recorded = NothingRecorded

\* the first render and its effect: if (autoFetch) fetchPricing()
Mount ==
    /\ probe.pc = "unmounted"
    /\ LET h == [probe EXCEPT !.pc = "mounted"]
       IN  probe' = IF h.options.autoFetch
                    THEN fetchPricing(h, Closure(h.state), FALSE)
                    ELSE h
    /\ UNCHANGED <<cfg, serverVars>>

\* the user refreshes: refresh() is fetchPricing(true)
Refresh ==
    /\ probe.pc = "mounted"
    /\ probe.fetches < MaxFetches
    /\ probe' = [fetchPricing(probe, Closure(probe.state), TRUE)
                    EXCEPT !.retries = 0]
    /\ UNCHANGED <<cfg, serverVars>>

\* the user presses Try Again on the error screen: clearError(); fetchPricing()
Retry ==
    /\ probe.pc = "mounted"
    /\ probe.state.error # Null
    /\ probe.fetches < MaxFetches
    /\ probe' = [fetchPricing(clearError(probe), Closure(probe.state), FALSE)
                    EXCEPT !.retries = 0]
    /\ UNCHANGED <<cfg, serverVars>>

\* the user forces a version: fetchSpecificVersion(version)
ForceVersion ==
    /\ probe.pc = "mounted"
    /\ probe.fetches < MaxFetches
    /\ probe' = [fetchSpecificVersion(probe) EXCEPT !.retries = 0]
    /\ UNCHANGED <<cfg, serverVars>>

\* a request settles: a response, an error status, or no response within
\* REQUEST_TIMEOUT
RequestSettled(r, outcome) ==
    /\ probe.pc = "mounted"
    /\ r \in probe.inflight
    /\ probe' = IF r.api = "getPricing"
                THEN fetchPricingSettled(probe, r, outcome)
                ELSE fetchSpecificVersionSettled(probe, r, outcome)
    /\ UNCHANGED <<cfg, serverVars>>

\* setTimeout(() => fetchPricing(true), 2000) fires: the function that set
\* the timer runs again
TimerFire(t) ==
    /\ probe.pc = "mounted"
    /\ t \in probe.timers
    /\ probe.fetches < MaxFetches
    /\ probe' = [fetchPricing([probe EXCEPT !.timers = @ \ {t}], t.closure, TRUE)
                    EXCEPT !.retries = @ + 1]
    /\ UNCHANGED <<cfg, serverVars>>

HookNext ==
    \/ Mount
    \/ Refresh
    \/ Retry
    \/ ForceVersion
    \/ \E r \in probe.inflight : \E outcome \in Outcomes : RequestSettled(r, outcome)
    \/ \E t \in probe.timers : TimerFire(t)

HookSpec == HookInit /\ [][HookNext]_vars

\* the effect runs after the first render, every request settles (a response
\* or the timeout) and every timer fires; the user may never act
HookFairSpec ==
    /\ HookSpec
    /\ WF_vars(Mount)
    /\ WF_vars(\E r \in probe.inflight : \E outcome \in Outcomes : RequestSettled(r, outcome))
    /\ WF_vars(\E t \in probe.timers : TimerFire(t))

\* StatsSpec: getStats and resetStats applied to counters as any number of
\* recorded requests can have left them
MaxCount == 10          \* requests recorded for one variant

StatsInit ==
    /\ cfg \in ServerConfigs
    /\ probe = NoProbe
    /\ determineVersionProp = Method
    /\ versionStats \in [Variants -> 0..MaxCount]
    /\ LET total == versionStats["blue"] + versionStats["green"]
           req == ClientReq("alice", "none", Undefined)
       IN  /\ requestCount =
                 IF total = 0 THEN EmptyMap ELSE (getClientIp(req) :> total)
           /\ recorded =
                 [versions    |-> [v \in {w \in Variants : versionStats[w] > 0} |->
                                    versionStats[v]],
                  identifiers |-> IF total = 0 THEN EmptyMap
                                  ELSE (getClientIdentifier(req) :> total),
                  erased      |-> 0]
    /\ pending = {}
    /\ jar = [client \in Clients |-> Undefined]
    /\ started = 0
    /\ lastResponse = [kind |-> "none"]

StatsNext == GetStats \/ ResetStats

StatsSpec == StatsInit /\ [][StatsNext]_vars

----------------------------------------------------------------------------
(* Properties of the decision, checked under RouteSpec.  The definitions    *)
(* below restate the resolution order independently of the loops above.     *)

stickyOf(req) == Get(req.cookies, StickyCookieName)

\* the sticky check yields a variant
StickyApplies(c, req) == c.stickySession.enabled /\ stickyOf(req) \in Variants

\* what the evaluator of rule r returns for req
Yield(c, r, req) ==
    CASE r = "header"     -> applyHeaderRouting(req, c.rules[r])
      [] r = "cookie"     -> applyCookieRouting(req, c.rules[r])
      [] r = "ip"         -> applyIpRouting(req, c.rules[r])
      [] r = "percentage" -> applyPercentageRouting(req, c.rules[r])

\* priority entry i is an enabled rule whose evaluator yields a variant
Fires(c, req, i) ==
    LET r == c.priority[i]
    IN  r \in RuleNames /\ c.rules[r].enabled /\ Yield(c, r, req) \in Variants

\* the first entry that fires, 0 when none does
FirstFiring(c, req) ==
    LET firing == {i \in 1..Len(c.priority) : Fires(c, req, i)}
    IN  IF firing = {} THEN 0
        ELSE CHOOSE i \in firing : \A j \in firing : i <= j

\* c with every occurrence of rule r struck from the priority list
WithoutRule(c, r) ==
    [c EXCEPT !.priority = SelectSeq(c.priority, LAMBDA x : x # r)]

Decided == probe.pc \in {"decided", "explained"}
Explained == probe.pc = "explained"

\* C1: with sticky sessions enabled and a sticky cookie that is exactly
\* "blue" or "green", determineVersion returns the cookie's value and
\* getRoutingReason returns "sticky-session", whatever the priority list,
\* the rules' enable flags and parameters, and the rest of the request.
C1_StickyPrecedence ==
    (probe.pc # "off" /\ StickyApplies(cfg, probe.req)) =>
        /\ Decided => probe.version = stickyOf(probe.req)
        /\ Explained => probe.routingReason = "sticky-session"

\* C1 witness: sticky cookie "green" beats an enabled header rule that is
\* first in the priority list and whose header says "blue".
C1_Witness ==
    /\ Explained
    /\ cfg.stickySession.enabled
    /\ stickyOf(probe.req) = "green"
    /\ cfg.priority[1] = "header" /\ cfg.rules["header"].enabled
    /\ Get(probe.req.headers, "x-version") = "blue"
    /\ probe.version = "green"
    /\ probe.routingReason = "sticky-session"

\* C2: when the sticky check yields nothing, determineVersion returns what
\* the first enabled rule, in priority order, whose evaluator yields a
\* variant returns; and striking a disabled rule from the priority list
\* leaves the decision unchanged.
C2_FirstEnabledRuleDecides ==
    (Decided /\ ~StickyApplies(cfg, probe.req)) =>
        /\ FirstFiring(cfg, probe.req) # 0 =>
              probe.version =
                  Yield(cfg, cfg.priority[FirstFiring(cfg, probe.req)], probe.req)
        /\ \A r \in RuleNames :
              ~cfg.rules[r].enabled =>
                  determineVersion(WithoutRule(cfg, r), probe.req) = probe.version

\* C2 witness: header rule enabled and first but the header is absent, the
\* ip rule (before percentage) is disabled although the IP is allowlisted,
\* and the cookie rule decides "green".
C2_Witness ==
    /\ Decided
    /\ ~StickyApplies(cfg, probe.req)
    /\ cfg.priority = <<"header", "cookie", "ip", "percentage">>
    /\ cfg.rules["header"].enabled
    /\ "x-version" \notin DOMAIN probe.req.headers
    /\ cfg.rules["cookie"].enabled
    /\ Get(probe.req.cookies, RoutingCookieName) = "green"
    /\ ~cfg.rules["ip"].enabled /\ probe.req.ip = "127.0.0.1"
    /\ probe.version = "green"

\* C3: when the sticky check yields nothing and no rule of the priority list
\* fires, the decision is "blue" and the reason "default-fallback"; and that
\* happens only when the percentage rule is disabled or not in the list.
C3_DefaultFallback ==
    (probe.pc # "off" /\ ~StickyApplies(cfg, probe.req)
        /\ FirstFiring(cfg, probe.req) = 0) =>
        /\ Decided => probe.version = "blue"
        /\ Explained => probe.routingReason = "default-fallback"
        /\ \/ ~cfg.rules["percentage"].enabled
           \/ \A i \in 1..Len(cfg.priority) : cfg.priority[i] # "percentage"

\* C3 witness: enabled header and cookie rules that both miss, nothing else
\* fires, and the request is answered blue / default-fallback.
C3_Witness ==
    /\ Explained
    /\ ~StickyApplies(cfg, probe.req)
    /\ FirstFiring(cfg, probe.req) = 0
    /\ cfg.rules["header"].enabled /\ cfg.rules["cookie"].enabled
    /\ Get(probe.req.headers, "x-version") = "purple"
    /\ stickyOf(probe.req) = "purple"
    /\ probe.version = "blue"
    /\ probe.routingReason = "default-fallback"

\* the tag of the step of determineVersion that produces the decision
DecidingTag(c, req) ==
    IF StickyApplies(c, req) THEN "sticky-session"
    ELSE IF FirstFiring(c, req) = 0 THEN "default-fallback"
    ELSE LET r == c.priority[FirstFiring(c, req)]
         IN  CASE r = "header"     -> "header-" \o c.rules[r].headerName
               [] r = "cookie"     -> "cookie-" \o c.rules[r].cookieName
               [] r = "ip"         -> "ip-based"
               [] r = "percentage" -> "percentage-split"

\* C4: getRoutingReason(req, determineVersion(req)) is the tag of the step
\* that produced the decision: "sticky-session", the tag of the first rule
\* that fired, or "default-fallback".
C4_ReasonMatchesDecision ==
    Explained => probe.routingReason = DecidingTag(cfg, probe.req)

\* C4 witness: the ip rule is consulted before an enabled cookie rule whose
\* cookie names the other variant, and the reason is the ip rule's tag.
C4_Witness ==
    /\ Explained
    /\ ~StickyApplies(cfg, probe.req)
    /\ cfg.priority = <<"ip", "cookie", "header">>
    /\ cfg.rules["ip"].enabled /\ cfg.rules["cookie"].enabled
    /\ probe.req.ip = "10.0.0.5"
    /\ Get(probe.req.cookies, RoutingCookieName) = "blue"
    /\ probe.version = "green"
    /\ probe.routingReason = "ip-based"

----------------------------------------------------------------------------
(* Properties of the running server, checked under Spec.                    *)

InitialJar(client) == IF client = "bob" THEN "purple" ELSE Undefined
Total == versionStats["blue"] + versionStats["green"]
CountOf(counts, key) == IF key \in DOMAIN counts THEN counts[key] ELSE 0
IsPricing(r) == r.kind \in {"normal", "forced"}

\* C5: for a fixed configuration and a fixed request the normal path decides
\* the same variant (and so derives the same reason) whatever was handled
\* before: two GET /pricing handlers with the same request hold the same
\* decision.
C5_SameRequestSameDecision ==
    \A h1, h2 \in pending :
        (h1.kind = "normal" /\ h2.kind = "normal" /\ h1.req = h2.req) =>
            h1.version = h2.version

\* C6: every variant decided or served, every value written to the sticky
\* cookie and every key of the version statistics is "blue" or "green".
C6_OnlyVariants ==
    /\ DOMAIN versionStats = Variants
    /\ \A h \in pending :
          h.version \in Variants /\ h.setCookie \in Variants \cup {Undefined}
    /\ IsPricing(lastResponse) =>
          /\ lastResponse.status = 200 => lastResponse.version \in Variants
          /\ lastResponse.setCookie \in Variants \cup {Undefined}
    /\ \A client \in Clients :
          jar[client] # InitialJar(client) => jar[client] \in Variants

\* C6 witness: requests carrying a sticky cookie, a header and a routing
\* cookie that name no variant have been decided and counted.
C6_Witness ==
    /\ \E h \in pending :
          /\ stickyOf(h.req) = "purple"
          /\ Get(h.req.headers, "x-version") = "purple"
          /\ Get(h.req.cookies, RoutingCookieName) = "Blue"
    /\ Total > 0
    /\ IsPricing(lastResponse) /\ lastResponse.status = 200

\* C7: with sticky sessions enabled, a GET /pricing request of a client that
\* only ever sends GET /pricing, carrying the sticky cookie its previous
\* response set, is decided as that cookie says.
C7_StickyAffinity ==
    cfg.stickySession.enabled =>
        \A h \in pending :
            (h.kind = "normal" /\ h.client \notin Testers
                /\ stickyOf(h.req) \in Variants) =>
                h.version = stickyOf(h.req)

\* C8: GET /pricing/version/:version with a version other than "blue" or
\* "green" is answered 400 and changes nothing else: no handler reaches the
\* decision, the decision function, the counters and the jars stay as they are.
C8_InvalidForcedVersionRejected ==
    [][\A client \in Testers : \A extra \in ExtrasOf(client) :
         \A param \in PathVersions \ Variants :
            GetSpecificVersion(client, extra, param) =>
                /\ lastResponse'.kind = "forced"
                /\ lastResponse'.status = 400
                /\ lastResponse'.setCookie = Undefined
                /\ UNCHANGED <<determineVersionProp, versionStats, requestCount,
                               pending, jar>>]_vars

\* C8 witness: a 400 has been sent while counters were non-zero and another
\* handler was suspended.
C8_Witness ==
    /\ lastResponse.kind = "forced" /\ lastResponse.status = 400
    /\ Total > 0
    /\ pending # {}

\* C9: a valid forced-version request decides exactly the requested variant,
\* whatever its sticky cookie and the rules say, and writes it to the sticky
\* cookie when sticky sessions are enabled; and a handler that is served,
\* forced or normal alike, serves the variant it decided, adds one to that
\* variant's counter and one to the client's request counter.
C9_ForcedServedAndCounted ==
    [][/\ \A client \in Testers : \A extra \in ExtrasOf(client) :
          \A param \in Variants :
             GetSpecificVersion(client, extra, param) =>
                \E h \in pending' \ pending :
                    /\ h.kind = "forced" /\ h.version = param
                    /\ h.setCookie = IF cfg.stickySession.enabled
                                     THEN param ELSE Undefined
       /\ \A h \in pending :
             DataRead(h, "valid") =>
                /\ lastResponse'.status = 200
                /\ lastResponse'.version = h.version
                /\ lastResponse'.setCookie = h.setCookie
                /\ versionStats' =
                      [versionStats EXCEPT ![h.version] = versionStats[h.version] + 1]
                /\ CountOf(requestCount', h.req.ip) = CountOf(requestCount, h.req.ip) + 1
                /\ \A ip \in DOMAIN requestCount' \ {h.req.ip} :
                      CountOf(requestCount', ip) = CountOf(requestCount, ip)
                /\ cfg.stickySession.enabled => jar'[h.client] = h.version]_vars

\* C9 witness: a forced request for "blue" has been served and counted, and a
\* forced request for "green" whose sticky cookie says "blue" is decided green.
C9_Witness ==
    /\ lastResponse.kind = "forced" /\ lastResponse.status = 200
    /\ lastResponse.version = "blue" /\ lastResponse.setCookie = "blue"
    /\ versionStats["blue"] = 1 /\ CountOf(requestCount, "10.0.0.5") = 1
    /\ \E h \in pending :
          /\ h.kind = "forced" /\ stickyOf(h.req) = "blue"
          /\ determineVersion(cfg, h.req) = "blue"
          /\ h.version = "green" /\ h.setCookie = "green"

\* C10: when the payload of the decided variant cannot be loaded or fails
\* validation the request is answered with a service error and the decision
\* is still counted: the variant's counter and the client's request counter
\* each grow by one.
C10_FailedRequestStillCounted ==
    [][\A h \in pending : \A data \in {"invalid", "error"} :
          DataRead(h, data) =>
             /\ lastResponse'.status = 500
             /\ CountOf(versionStats', h.version) = CountOf(versionStats, h.version) + 1
             /\ CountOf(requestCount', h.req.ip) = CountOf(requestCount, h.req.ip) + 1]_vars

----------------------------------------------------------------------------
(* Properties of the statistics.                                            *)

\* the snapshot GET /pricing/stats would return now
Snapshot == getStats(versionStats, requestCount)

\* C11: in every snapshot the count of each variant is the number of
\* decisions recorded for it since the last reset (or since the start), and
\* totalRequests is the blue count plus the green count.
C11_CountsMatchRecorded ==
    /\ \A v \in Variants : Snapshot[v].count = CountOf(recorded.versions, v)
    /\ Snapshot.totalRequests = Snapshot.blue.count + Snapshot.green.count
    /\ DOMAIN recorded.versions \subseteq Variants

\* C11 witness: a snapshot taken after one blue and two green decisions were
\* recorded reports blue 1, green 2, total 3.
C11_Witness ==
    /\ lastResponse.kind = "stats"
    /\ lastResponse.data = Snapshot
    /\ CountOf(recorded.versions, "blue") = 1
    /\ CountOf(recorded.versions, "green") = 2
    /\ lastResponse.data.blue.count = 1 /\ lastResponse.data.green.count = 2
    /\ lastResponse.data.totalRequests = 3

\* C12: whatever the interleaving of normal and forced handlers with
\* snapshot reads, no increment is lost and no snapshot is torn: with N
\* requests recorded since the last reset totalRequests is N, the per-client
\* request counters sum to the blue count plus the green count, and a
\* snapshot that was sent shows clients exactly when it shows requests.
C12_NoLostIncrement ==
    /\ Snapshot.totalRequests = BagSize(recorded.identifiers)
    /\ BagSize(requestCount) = Snapshot.blue.count + Snapshot.green.count
    /\ lastResponse.kind = "stats" =>
          /\ lastResponse.data.uniqueClients <= lastResponse.data.totalRequests
          /\ lastResponse.data.totalRequests > 0 => lastResponse.data.uniqueClients > 0

\* C12 witness: a snapshot is read while a normal and a forced handler are
\* both suspended, after another request was recorded.
C12_Witness ==
    /\ lastResponse.kind = "stats" /\ lastResponse.data = Snapshot
    /\ \E h1, h2 \in pending : h1.kind = "normal" /\ h2.kind = "forced"
    /\ BagSize(recorded.identifiers) = 1
    /\ Snapshot.totalRequests = 1 /\ Snapshot.uniqueClients = 1

\* C13: resetStats, in whatever state it runs, leaves a snapshot whose blue
\* count, green count, totalRequests and uniqueClients are all 0, in the one
\* step, and changes neither the routing configuration nor the decision
\* function (nor the handlers in flight and the cookies the clients hold).
C13_ResetZeroesAll ==
    [][ResetStats =>
          LET next == getStats(versionStats', requestCount')
          IN  /\ next.blue.count = 0 /\ next.green.count = 0
              /\ next.totalRequests = 0 /\ next.uniqueClients = 0
              /\ UNCHANGED <<cfg, determineVersionProp, pending, jar>>]_vars

\* C13 witness: a reset has erased two recorded requests while a forced
\* handler was suspended with its override installed.
C13_Witness ==
    /\ lastResponse.kind = "reset"
    /\ recorded.erased = 2
    /\ Snapshot.totalRequests = 0 /\ Snapshot.uniqueClients = 0
    /\ determineVersionProp.kind = "arrow"
    /\ \E h \in pending : h.kind = "forced"

Abs(n) == IF n < 0 THEN -n ELSE n

\* C14: in a snapshot that was sent, with total > 0 each variant's percentage
\* is count / total * 100 to the nearest hundredth, so that the two add up
\* to 100 within one hundredth; with total = 0 both are the number 0, and the
\* snapshot is produced all the same.
C14_Percentages ==
    lastResponse.kind = "stats" =>
        LET data == lastResponse.data
            total == data.totalRequests
        IN  /\ lastResponse.status = 200
            /\ total > 0 =>
                  /\ \A v \in Variants :
                        /\ data[v].percentage.type = "string"
                        /\ 2 * Abs(data[v].percentage.hundredths * total
                                      - data[v].count * 10000) <= total
                  /\ Abs(data.blue.percentage.hundredths
                           + data.green.percentage.hundredths - 10000) <= 1
            /\ total = 0 =>
                  \A v \in Variants : data[v].percentage = JsNumber(0)

\* C14 witness: the snapshot of 3 blue and 7 green reports 30.00 and 70.00.
C14_Witness ==
    /\ lastResponse.kind = "stats"
    /\ lastResponse.data.blue.count = 3 /\ lastResponse.data.green.count = 7
    /\ lastResponse.data.blue.percentage = Numeral(3000)
    /\ lastResponse.data.green.percentage = Numeral(7000)

----------------------------------------------------------------------------
(* Properties of the rule evaluators, checked under EvalSpec.               *)

Applied(rule) == probe.pc = "applied" /\ probe.rule = rule

\* C15: the percentage rule always returns a variant: blue iff the bucket of
\* the client identifier (IP, "-", user agent), a number in 0..99, is below
\* the configured blue share, else green; the green share plays no part, a
\* blue share of 0 gives green and one of 100 or more gives blue.
C15_PercentageRule ==
    Applied("percentage") =>
        LET config == cfg.rules["percentage"]
            ua == Get(probe.req.headers, "user-agent")
            identifier == probe.req.ip \o "-" \o (IF ua = Undefined THEN "" ELSE ua)
            bucket == mod100(hashString(identifier))
        IN  /\ probe.version \in Variants
            /\ getClientIdentifier(probe.req) = identifier
            /\ bucket \in 0..99
            /\ probe.version = "blue" <=> bucket < config.blue
            /\ config.blue = 0 => probe.version = "green"
            /\ config.blue >= 100 => probe.version = "blue"
            /\ \A green \in GreenShares :
                  applyPercentageRouting(probe.req, [config EXCEPT !.green = green])
                      = probe.version

\* C15 witness: bucket 26 is blue under a blue share of 27, though the
\* configured green share is 100.
C15_Witness ==
    /\ Applied("percentage")
    /\ getClientIdentifier(probe.req) = "10.0.0.5-"
    /\ cfg.rules["percentage"].blue = 27 /\ cfg.rules["percentage"].green = 100
    /\ probe.version = "blue"

\* the value the client sent in a header whose name is a spelling of `name`
SentUnder(req, name) ==
    IF req.rawHeaders # << >> /\ name \in HeaderNames /\ req.rawHeaders[1] \in HeaderNames
    THEN req.rawHeaders[2] ELSE Undefined

\* C16: the header rule finds the configured header whatever the case of its
\* name in the configuration and in the request, and returns blue iff the
\* value sent equals the configured blue value, green iff it equals the
\* configured green value and not the blue one, and none otherwise, an
\* absent header included.
C16_HeaderRule ==
    Applied("header") =>
        LET config == cfg.rules["header"]
            sent == SentUnder(probe.req, config.headerName)
        IN  /\ probe.version = "blue" <=> sent = config.blueValue
            /\ probe.version = "green" <=>
                    (sent = config.greenValue /\ sent # config.blueValue)
            /\ probe.version = Null <=>
                    (sent # config.blueValue /\ sent # config.greenValue)
            /\ sent = Undefined => probe.version = Null

\* C16 witness: the configuration names X-Version, the client sent
\* X-VERSION: green, and the rule returned green.
C16_Witness ==
    /\ Applied("header")
    /\ cfg.rules["header"].headerName = "X-Version"
    /\ cfg.rules["header"].greenValue = "green"
    /\ probe.req.rawHeaders = <<"X-VERSION", "green">>
    /\ probe.version = "green"

\* C17: the cookie rule returns the value of the configured routing cookie
\* iff that value is exactly "blue" or "green", and none for an absent
\* cookie, a cookie of another name, or any other value ("Blue", "GREEN").
C17_CookieRule ==
    Applied("cookie") =>
        LET name == cfg.rules["cookie"].cookieName
            value == IF name \in DOMAIN probe.req.cookies
                     THEN probe.req.cookies[name] ELSE Undefined
        IN  /\ value = "blue" => probe.version = "blue"
            /\ value = "green" => probe.version = "green"
            /\ value \notin {"blue", "green"} => probe.version = Null

\* C17 witness: the routing cookie holds "Blue" and the rule returned none.
C17_Witness ==
    /\ Applied("cookie")
    /\ cfg.rules["cookie"].cookieName = RoutingCookieName
    /\ probe.req.cookies = (RoutingCookieName :> "Blue")
    /\ probe.version = Null

\* C18: the IP rule returns blue iff the client IP is, as a string, an entry
\* of the blue allowlist, otherwise green iff it is an entry of the green
\* allowlist, otherwise none; an IP on both lists is blue, and the entry
\* "10.0.0.0/24" does not match the address "10.0.0.5".
C18_IpRule ==
    Applied("ip") =>
        LET config == cfg.rules["ip"]
            ip == probe.req.ip
            onBlue == \E entry \in config.blueIps : entry = ip
            onGreen == \E entry \in config.greenIps : entry = ip
        IN  /\ probe.version = "blue" <=> onBlue
            /\ probe.version = "green" <=> (onGreen /\ ~onBlue)
            /\ probe.version = Null <=> (~onBlue /\ ~onGreen)
            /\ (ip = "10.0.0.5" /\ config.blueIps = {"127.0.0.1"}
                    /\ config.greenIps = {"10.0.0.0/24"}) => probe.version = Null

\* C18 witness: 10.0.0.5 is on both lists and the rule returned blue.
C18_Witness ==
    /\ Applied("ip")
    /\ probe.req.ip = "10.0.0.5"
    /\ "10.0.0.5" \in cfg.rules["ip"].blueIps
    /\ "10.0.0.5" \in cfg.rules["ip"].greenIps
    /\ probe.version = "blue"

\* C19: the client IP that the IP rule, the percentage rule's identifier and
\* the per-client statistics use is the normalized one: "::ffff:a.b.c.d"
\* counts as "a.b.c.d" and "::1" as "127.0.0.1", so that such a client
\* matches an allowlist entry "127.0.0.1".
C19_ClientIpNormalized ==
    (Applied("ip") \/ Applied("percentage")) =>
        LET ip == sanitizeIp(probe.req.ip)
            ua == Get(probe.req.headers, "user-agent")
            config == cfg.rules["ip"]
        IN  /\ getClientIp(probe.req) = ip
            /\ getClientIdentifier(probe.req) =
                    ip \o "-" \o (IF ua = Undefined THEN "" ELSE ua)
            /\ DOMAIN updateRequestCount(EmptyMap, probe.req) = {ip}
            /\ Applied("ip") =>
                  probe.version = IF ip \in config.blueIps THEN "blue"
                                  ELSE IF ip \in config.greenIps THEN "green"
                                  ELSE Null

----------------------------------------------------------------------------
(* The sticky cookie that names no variant, checked under RouteSpec.        *)

\* req as it would be had the client sent no sticky cookie
WithoutSticky(req) ==
    [req EXCEPT !.cookies =
        [name \in DOMAIN req.cookies \ {StickyCookieName} |-> req.cookies[name]]]

\* C20: when the sticky cookie is absent or holds anything but "blue" or
\* "green", the sticky check returns none, the decision and its reason are
\* those of the same request without the sticky cookie, and the reason is
\* not "sticky-session".
C20_InvalidStickyIgnored ==
    ((Decided \/ Explained) /\ stickyOf(probe.req) \notin Variants) =>
        /\ checkStickySession(cfg, probe.req) = Null
        /\ probe.version = determineVersion(cfg, WithoutSticky(probe.req))
        /\ Explained =>
              /\ probe.routingReason # "sticky-session"
              /\ probe.routingReason =
                    getRoutingReason(cfg, WithoutSticky(probe.req), probe.version)

\* C20 witness: sticky sessions are enabled, the sticky cookie says "purple",
\* and the request is decided green by the routing cookie.
C20_Witness ==
    /\ Explained
    /\ cfg.stickySession.enabled
    /\ stickyOf(probe.req) = "purple"
    /\ probe.version = "green"
    /\ probe.routingReason = "cookie-pricing-version"

----------------------------------------------------------------------------
(* Unknown rules and degraded configurations.                               *)

\* the priority entries that name no evaluator
UnknownEntries(c) == {c.priority[i] : i \in 1..Len(c.priority)} \ RuleNames

KnownTags == {"sticky-session", "header-X-Version", "cookie-pricing-version",
              "ip-based", "percentage-split", "default-fallback"}

\* C21: a priority entry that names a rule without evaluator, with or
\* without a configuration section, is skipped: determineVersion returns a
\* variant, the same one as with the entry struck from the list, and the
\* reason is the one reported without the entry, never a tag of that rule.
C21_UnknownRuleSkipped ==
    \A r \in UnknownEntries(cfg) :
        /\ Decided =>
              /\ probe.version \in Variants
              /\ probe.version = determineVersion(WithoutRule(cfg, r), probe.req)
        /\ Explained =>
              /\ probe.routingReason \in KnownTags
              /\ probe.routingReason =
                    getRoutingReason(WithoutRule(cfg, r), probe.req, probe.version)

\* C21 witness: "canary" has an enabled section and stands before the header
\* rule; the cookie rule yields nothing and the header rule decides green.
C21_Witness ==
    /\ Explained
    /\ ~StickyApplies(cfg, probe.req)
    /\ cfg.priority = <<"cookie", "canary", "header", "percentage">>
    /\ "canary" \in DOMAIN cfg.rules /\ cfg.rules["canary"].enabled
    /\ cfg.rules["cookie"].enabled /\ cfg.rules["header"].enabled
    /\ Get(probe.req.cookies, RoutingCookieName) = Undefined
    /\ Get(probe.req.headers, "x-version") = "green"
    /\ probe.version = "green"
    /\ probe.routingReason = "header-X-Version"

----------------------------------------------------------------------------
(* Properties of startup, checked under ConfigSpec.                         *)

Booted == probe.pc \in {"listening", "served", "crashed"}
Listening == probe.pc \in {"listening", "served"}
FileFailed == probe.file.state \in {"missing", "unparsable"}

\* what `parseInt(value) || fallback` gives
ShareOrElse(str, fallback) ==
    CASE str = "50" -> 50 [] str = "100" -> 100 [] OTHER -> fallback

C23_MalformedConfigDegrades ==
    (Booted /\ probe.file.state = "readable"
            /\ probe.file.content \in MalformedRules) =>
        /\ probe.pc # "crashed"
        /\ probe.pc = "served" =>
              probe.status = 200 /\ probe.version \in Variants

\* C28: a percentage set in the environment to an integer in 0..100 is the
\* effective percentage, and an ENABLE_*_ROUTING variable set to "true" or
\* "false" is the rule's effective enabled flag, whatever the file says.
C28_EnvironmentOverrides ==
    Listening =>
        /\ probe.env.BLUE_PERCENTAGE \in {"0", "50", "100"} =>
              cfg.rules["percentage"].blue = parseInt(probe.env.BLUE_PERCENTAGE).value
        /\ probe.env.GREEN_PERCENTAGE \in {"0", "50", "100"} =>
              cfg.rules["percentage"].green = parseInt(probe.env.GREEN_PERCENTAGE).value
        /\ \A r \in RuleNames :
              probe.env[EnableVars[r]] \in {"true", "false"} =>
                  cfg.rules[r].enabled = (probe.env[EnableVars[r]] = "true")

----------------------------------------------------------------------------
(* The forced-version override, checked under Spec and HealthySpec.         *)

Forced(handlers) == {h \in handlers : h.kind = "forced"}

\* C25: when a forced-version request that found the original decision
\* function installed completes, whether it succeeded or its pricing data
\* could not be loaded or validated, and no other forced request is in
\* flight, the decision function is the original one again.
C25_OverrideRestored ==
    [][\A h \in pending : \A data \in {"valid", "invalid", "error"} :
          (DataRead(h, data) /\ h.kind = "forced" /\ h.saved = Method
                /\ Forced(pending) = {h}) =>
             determineVersionProp' = Method]_vars

\* C26: while every data read succeeds, whenever no forced-version request is
\* in flight (all that were started have completed, in whatever order they
\* overlapped) the decision function is the original one.
C26_OverlappingForcedRestored ==
    Forced(pending) = {} => determineVersionProp = Method

\* C27: a GET /pricing whose handling starts while a forced-version request
\* awaits its pricing data is decided by its own sticky cookie and the
\* rules, and sets its sticky cookie accordingly.
C27_InFlightForcedDoesNotLeak ==
    [][\A client \in Clients : \A extra \in ExtrasOf(client) :
          (GetPricing(client, extra) /\ Forced(pending) # {}) =>
             \A h \in pending' \ pending :
                /\ h.version = determineVersion(cfg, h.req)
                /\ h.setCookie = setStickySession(cfg, determineVersion(cfg, h.req))]_vars

\* C29: the snapshot's uniqueClients is the number of distinct client
\* identifiers (IP together with user agent) recorded since the last reset.
C29_UniqueClientsByIdentifier ==
    Snapshot.uniqueClients = Cardinality(DOMAIN recorded.identifiers)

----------------------------------------------------------------------------
(* The usePricing hook, checked under HookSpec and HookFairSpec.            *)

\* C24: with autoFetch enabled the hook fetches after mount and eventually
\* leaves its initial loading state: loading is false with data or an error
\* set, whatever the outcome of the request.
C24_InitialLoadEnds ==
    (probe.pc = "unmounted" /\ probe.options.autoFetch) ~>
        (/\ ~probe.state.loading
         /\ (probe.state.data # Null \/ probe.state.error # Null))

\* C30: the automatic retry fetches issued since the last user action
\* (refresh, retry, force version) or the last successful fetch never number
\* more than maxRetries.
C30_RetriesBounded ==
    probe.retries <= probe.options.maxRetries

====
